---- MODULE Spec2Model ----
(***************************************************************************)
(* Model of generator/src/lvl3/rstruct.rs: the level-3 Rust structure of   *)
(* the protocol code generator.  from_lvl2 classifies and names a level-2  *)
(* structure, populate_asb synthesises the size expression and the         *)
(* as_bytes / from_bytes statement lists, to_syn_item emits the            *)
(* declaration.  The statements themselves are rendered by the sibling     *)
(* module lvl3 (super); their run-time meaning is modelled from the        *)
(* design document and kept apart in the section "Execution".              *)
(***************************************************************************)
EXTENDS Integers, Sequences, FiniteSets, TLC

VARIABLES
    msg,        \* the Lvl2Struct handed to from_lvl2
    pc,         \* position in the generation pipeline
    structs,    \* what from_lvl2 returned: <<res>> or <<res, other>>
    panic_msg,  \* the panic message of populate_from_bytes, "" if none
    locals,     \* per structure, the locals populate_from_bytes ended with
    decl,       \* what to_syn_item emitted for structs[1]: <<>> or <<unit>>
    inst,       \* a populated instance of the generated structure
    out,        \* result of running the as_bytes statements on inst
    back        \* result of running the from_bytes statements on out.bytes

vars == <<msg, pc, structs, panic_msg, locals, decl, inst, out, back>>

---------------------------------------------------------------------------
(* Bounds of the model.                                                    *)

\* longest item sequence of a message in Spec
MaxItems == 4
\* longest item sequence of a message in SpecGen
MaxGenItems == 2
\* most elements a list of an instance holds
MaxListLen == 2

---------------------------------------------------------------------------
(* lvl2 data: StructureItem, ListLength, StructSpecial, Struct.            *)

Field(name, ty) == [kind |-> "Field", name |-> name, ty |-> ty]

Padding(bytes) == [kind |-> "Padding", bytes |-> bytes]

LenSlot(ty, owning_list) ==
    [kind |-> "LenSlot", ty |-> ty, owning_list |-> owning_list]

List(name, ty, list_length, padding) ==
    [kind |-> "List", name |-> name, ty |-> ty,
     list_length |-> list_length, padding |-> padding]

\* A list length that is one reference to a length field.
SingleItem == [form |-> "single", n |-> 0]

\* A list length that is an expression; here a literal element count.
LengthExpr(n) == [form |-> "expr", n |-> n]

\* ListLength::single_item: Some(..) iff the length is a single reference.
single_item(list_length) ==
    IF list_length.form = "single" THEN <<"item">> ELSE <<>>

\* ListLength::to_length_expr: the length rendered as an expression.
to_length_expr(list_length) == [expr |-> "lit", lit |-> list_length.n, path |-> ""]

\* syn_util::str_to_exprpath: a variable name as a path expression.
str_to_exprpath(s) == [expr |-> "path", lit |-> 0, path |-> s]

Regular == [tag |-> "Regular", opcode |-> 0, reply |-> <<>>]

Event(opcode) == [tag |-> "Event", opcode |-> opcode, reply |-> <<>>]

Error(opcode) == [tag |-> "Error", opcode |-> opcode, reply |-> <<>>]

\* reply is an Option<Box<Struct>>: <<>> is None, <<s>> is Some(s)
Request(opcode, reply) == [tag |-> "Request", opcode |-> opcode, reply |-> reply]

Lvl2Struct(name, fields, special) ==
    [name |-> name, fields |-> fields, special |-> special]

---------------------------------------------------------------------------
(* lvl3 data: Type, Trait, Asb, RStruct.                                   *)

TypeBasic(s) == [ty |-> "Basic", name |-> s]

TypeTuple(elems) == [ty |-> "Tuple", name |-> "", elems |-> elems]

TraitEvent(opcode) == [tag |-> "Event", opcode |-> opcode]

TraitError(opcode) == [tag |-> "Error", opcode |-> opcode]

TraitRequest(opcode, ty) == [tag |-> "Request", opcode |-> opcode, ty |-> ty]

\* Asb::default()
AsbDefault == [size |-> <<>>, as_bytes_stmts |-> <<>>, from_bytes_stmts |-> <<>>]

---------------------------------------------------------------------------
(* to_syn_item: the emitted unit.                                          *)

\* StructureItem::to_syn_field: Some(field) for a Field or a List, else None
to_syn_field(f) ==
    IF f.kind \in {"Field", "List"} THEN <<f.name>> ELSE <<>>

RECURSIVE NamedFields(_)
NamedFields(fields) ==
    IF fields = <<>> THEN <<>>
    ELSE to_syn_field(Head(fields)) \o NamedFields(Tail(fields))

to_syn_item(self) ==
    [ident |-> self.name,
     attrs |-> (IF self.is_transparent THEN <<"repr(transparent)">> ELSE <<>>)
               \o (IF Len(self.derives) = 0 THEN <<>> ELSE <<"derive">>),
     named |-> NamedFields(self.fields),
     methods |-> self.methods,
     asb |-> self.asb,
     traits |-> self.traits]

---------------------------------------------------------------------------
(* from_lvl2: classification, naming and request/reply splitting.          *)

\* the reply type a Request trait carries, without the "Reply" suffix
ReplyType_nosuffix(reply) ==
    IF reply # <<>> THEN TypeBasic(reply[1].name) ELSE TypeTuple(<<>>)

\* the reply type a Request trait carries
ReplyType(reply) ==
    IF reply # <<>> THEN TypeBasic(reply[1].name \o "Reply") ELSE TypeTuple(<<>>)

\* is_transparent counted over the members that are emitted
IsTransparent_emitted(fields) == Len(NamedFields(fields)) = 1

\* RStruct::is_transparent as from_lvl2 sets it
IsTransparent(fields) == Len(fields) = 1

\* the trait obligations from_lvl2 pushes
TraitsOf(special, is_reply) ==
    IF is_reply THEN <<>>
    ELSE CASE special.tag = "Regular" -> <<>>
           [] special.tag = "Event" -> <<TraitEvent(special.opcode)>>
           [] special.tag = "Error" -> <<TraitError(special.opcode)>>
           [] special.tag = "Request" ->
                <<TraitRequest(special.opcode, ReplyType(special.reply))>>

\* the final name from_lvl2 gives
NameOf(name, special, is_reply) ==
    IF is_reply THEN name \o "Reply"
    ELSE CASE special.tag = "Regular" -> name
           [] special.tag = "Event" -> name \o "Event"
           [] special.tag = "Error" -> name \o "Error"
           [] special.tag = "Request" -> name \o "Request"

\* the RStruct from_lvl2 builds
ResOf(s, is_reply) ==
    [name |-> NameOf(s.name, s.special, is_reply),
     derives |-> <<"Clone", "Debug", "Default">>,
     is_transparent |-> IsTransparent(s.fields),
     fields |-> s.fields,
     methods |-> <<>>,
     traits |-> TraitsOf(s.special, is_reply),
     asb |-> AsbDefault]

\* from_lvl2 recursing with is_reply unset
RECURSIVE from_lvl2_unflagged(_, _)
from_lvl2_unflagged(s, is_reply) ==
    <<ResOf(s, FALSE),
      IF s.special.tag = "Request" /\ s.special.reply # <<>>
      THEN <<from_lvl2_unflagged(s.special.reply[1], FALSE)[1]>>
      ELSE <<>>>>

RECURSIVE from_lvl2(_, _)
from_lvl2(s, is_reply) ==
    <<ResOf(s, is_reply),
      IF is_reply THEN <<>>
      ELSE IF s.special.tag = "Request" /\ s.special.reply # <<>>
           THEN <<from_lvl2(s.special.reply[1], TRUE)[1]>>
           ELSE <<>>>>

\* impl From<Lvl2Struct> for (RStruct, Option<RStruct>)
from(s) == from_lvl2(s, FALSE)

---------------------------------------------------------------------------
(* lvl3 statements and size parts, as populate_asb builds them.            *)

CreateIndexVariable == [op |-> "CreateIndexVariable"]

AppendToIndexStatement(name) == [op |-> "AppendToIndexStatement", name |-> name]

PadIndexStatement(bytes) == [op |-> "PadIndexStatement", bytes |-> bytes]

AppendLengthToIndex(name) == [op |-> "AppendLengthToIndex", name |-> name]

AsBytesList(name, ty, pad) ==
    [op |-> "AsBytesList", name |-> name, ty |-> ty, pad |-> pad]

ReturnIndexStatement == [op |-> "ReturnIndexStatement"]

LoadStatementVariable(name, ty, use_slice) ==
    [op |-> "LoadStatementVariable", name |-> name, ty |-> ty,
     use_slice |-> use_slice]

IncrementIndexSz == [op |-> "IncrementIndex::Sz"]

IncrementIndexNumber(bytes) == [op |-> "IncrementIndex::Number", bytes |-> bytes]

FromBytesList(name, ty, len, pad) ==
    [op |-> "FromBytesList", name |-> name, ty |-> ty, len |-> len, pad |-> pad]

ReturnStruct(last_index, sname, fields) ==
    [op |-> "ReturnStruct", last_index |-> last_index, sname |-> sname,
     fields |-> fields]

SizeofField(name) == [part |-> "SizeofField", name |-> name]

Bytes(bytes) == [part |-> "Bytes", bytes |-> bytes]

ListTimesSize(name, ty, padding) ==
    [part |-> "ListTimesSize", name |-> name, ty |-> ty, padding |-> padding]

SizeofType(ty) == [part |-> "SizeofType", ty |-> ty]

\* Type::from_lvl2: the level-3 type of a level-2 type
TypeFromLvl2(ty) == TypeBasic(ty)

---------------------------------------------------------------------------
(* populate_asb: size parts.                                               *)

\* the size map with the padding left out of the sum
SizePartOf_nopad(f) ==
    CASE f.kind = "Field" -> SizeofField(f.name)
      [] f.kind = "Padding" -> Bytes(0)
      [] f.kind = "List" -> ListTimesSize(f.name, f.ty, f.padding)
      [] f.kind = "LenSlot" -> SizeofType(TypeFromLvl2(f.ty))

\* the closure of the size map: one part per item
SizePartOf(f) ==
    CASE f.kind = "Field" -> SizeofField(f.name)
      [] f.kind = "Padding" -> Bytes(f.bytes)
      [] f.kind = "List" -> ListTimesSize(f.name, f.ty, f.padding)
      [] f.kind = "LenSlot" -> SizeofType(TypeFromLvl2(f.ty))

populate_size(self) == [k \in 1..Len(self.fields) |-> SizePartOf(self.fields[k])]

---------------------------------------------------------------------------
(* populate_as_bytes.                                                      *)

\* the statement of one item, the length slot written as reserved bytes
AsBytesStmtOf_reserved(f) ==
    CASE f.kind = "Field" -> <<AppendToIndexStatement(f.name)>>
      [] f.kind = "Padding" -> <<PadIndexStatement(f.bytes)>>
      [] f.kind = "LenSlot" -> <<PadIndexStatement(IF f.ty = "u8" THEN 1 ELSE 2)>>
      [] f.kind = "List" -> <<AsBytesList(f.name, f.ty, f.padding)>>

\* the closure of the filter_map: the statement of one item
AsBytesStmtOf(f) ==
    CASE f.kind = "Field" -> <<AppendToIndexStatement(f.name)>>
      [] f.kind = "Padding" -> <<PadIndexStatement(f.bytes)>>
      [] f.kind = "LenSlot" -> <<AppendLengthToIndex(f.owning_list)>>
      [] f.kind = "List" -> <<AsBytesList(f.name, f.ty, f.padding)>>

RECURSIVE AsBytesBody(_)
AsBytesBody(fields) ==
    IF fields = <<>> THEN <<>>
    ELSE AsBytesStmtOf(Head(fields)) \o AsBytesBody(Tail(fields))

populate_as_bytes(self) ==
    <<CreateIndexVariable>> \o AsBytesBody(self.fields) \o <<ReturnIndexStatement>>

---------------------------------------------------------------------------
(* populate_from_bytes.                                                    *)

\* HashMap::new
EmptyMap == [k \in {} |-> ""]

\* HashMap::insert: a later insert of the same key replaces the value
MapInsert(m, key, v) ==
    [k \in DOMAIN m \cup {key} |-> IF k = key THEN v ELSE m[k]]

\* HashMap::remove, the map it leaves
MapRemove(m, key) == [k \in DOMAIN m \ {key} |-> m[k]]

\* i is a u32 counting the LenSlot items seen so far: it stays below the
\* number of items of the message and never wraps
\* format!("len{}", i)
LenName(i) == "len" \o ToString(i)

\* the locals of populate_from_bytes before the first item; panic, temps
\* and maps record what the run did: the panic message, the temporaries
\* allocated, and len_map after each item
FromBytesStart ==
    [len_map |-> EmptyMap, i |-> 0, stmts |-> <<>>, panic |-> "",
     temps |-> <<>>, maps |-> <<>>]

\* the List arm with a length that is looked up but never removed
FromBytesListArm_get(st, f) ==
    IF single_item(f.list_length) # <<>>
    THEN IF f.name \in DOMAIN st.len_map
         THEN [st EXCEPT !.stmts = @ \o <<FromBytesList(f.name, f.ty,
                                            str_to_exprpath(st.len_map[f.name]),
                                            f.padding)>>,
                         !.maps = Append(@, st.len_map)]
         ELSE [st EXCEPT !.panic = "Bad len map: Cannot find len for " \o f.name]
    ELSE [st EXCEPT !.stmts = @ \o <<FromBytesList(f.name, f.ty,
                                        to_length_expr(f.list_length), f.padding)>>,
                    !.maps = Append(@, st.len_map)]

\* the List arm with the missing length defaulted instead of a panic
FromBytesListArm_default(st, f) ==
    IF single_item(f.list_length) # <<>>
    THEN LET m == MapRemove(st.len_map, f.name)
             len_name == IF f.name \in DOMAIN st.len_map THEN st.len_map[f.name] ELSE ""
         IN  [st EXCEPT !.len_map = m,
                        !.stmts = @ \o <<FromBytesList(f.name, f.ty,
                                           str_to_exprpath(len_name), f.padding)>>,
                        !.maps = Append(@, m)]
    ELSE [st EXCEPT !.stmts = @ \o <<FromBytesList(f.name, f.ty,
                                        to_length_expr(f.list_length), f.padding)>>,
                    !.maps = Append(@, st.len_map)]

\* the List arm of the closure
FromBytesListArm(st, f) ==
    IF single_item(f.list_length) # <<>>
    THEN IF f.name \in DOMAIN st.len_map
         THEN LET m == MapRemove(st.len_map, f.name)
              IN  [st EXCEPT !.len_map = m,
                             !.stmts = @ \o <<FromBytesList(f.name, f.ty,
                                                str_to_exprpath(st.len_map[f.name]),
                                                f.padding)>>,
                             !.maps = Append(@, m)]
         ELSE [st EXCEPT !.panic = "Bad len map: Cannot find len for " \o f.name]
    ELSE [st EXCEPT !.stmts = @ \o <<FromBytesList(f.name, f.ty,
                                        to_length_expr(f.list_length), f.padding)>>,
                    !.maps = Append(@, st.len_map)]

\* the LenSlot arm of the closure
FromBytesLenSlotArm(st, f) ==
    LET len_name == LenName(st.i)
        m == MapInsert(st.len_map, f.owning_list, len_name)
    IN  [st EXCEPT !.i = st.i + 1,
                   !.len_map = m,
                   !.temps = Append(@, len_name),
                   !.stmts = @ \o <<LoadStatementVariable(len_name, TypeFromLvl2(f.ty), TRUE),
                                   IncrementIndexSz>>,
                   !.maps = Append(@, m)]

\* the closure of the filter_map: one item, with the locals it captures
FromBytesItem(st, f) ==
    CASE f.kind = "Field" ->
            [st EXCEPT !.stmts = @ \o <<LoadStatementVariable(f.name, TypeFromLvl2(f.ty), TRUE),
                                       IncrementIndexSz>>,
                       !.maps = Append(@, st.len_map)]
      [] f.kind = "Padding" ->
            [st EXCEPT !.stmts = @ \o <<IncrementIndexNumber(f.bytes)>>,
                       !.maps = Append(@, st.len_map)]
      [] f.kind = "LenSlot" -> FromBytesLenSlotArm(st, f)
      [] f.kind = "List" -> FromBytesListArm(st, f)

\* the iterator chain over self.fields; a panic unwinds out of it
RECURSIVE FromBytesBody(_, _)
FromBytesBody(st, fields) ==
    IF fields = <<>> \/ st.panic # "" THEN st
    ELSE FromBytesBody(FromBytesItem(st, Head(fields)), Tail(fields))

\* the field list of the ReturnStruct statement
ReturnStructField(f) ==
    CASE f.kind = "Field" -> <<f.name>>
      [] f.kind = "List" -> <<f.name>>
      [] OTHER -> <<>>

RECURSIVE ReturnStructFields(_)
ReturnStructFields(fields) ==
    IF fields = <<>> THEN <<>>
    ELSE ReturnStructField(Head(fields)) \o ReturnStructFields(Tail(fields))

\* the locals at the end of the run; stmts is what is assigned to
\* self.asb.from_bytes_stmts, and is assigned only if nothing panicked
populate_from_bytes(self) ==
    LET st == FromBytesBody(FromBytesStart, self.fields)
    IN  IF st.panic # "" THEN st
        ELSE [st EXCEPT !.stmts = <<CreateIndexVariable>> \o @
                           \o <<ReturnStruct("index", self.name,
                                             ReturnStructFields(self.fields))>>]

\* populate_asb: as_bytes, then from_bytes, then size
populate_asb(self) ==
    LET ab == populate_as_bytes(self)
        fb == populate_from_bytes(self)
    IN  IF fb.panic # ""
        THEN [self EXCEPT !.asb.as_bytes_stmts = ab]
        ELSE [self EXCEPT !.asb = [size |-> populate_size(self),
                                   as_bytes_stmts |-> ab,
                                   from_bytes_stmts |-> fb.stmts]]

---------------------------------------------------------------------------
(* Execution: what the emitted statements do when the generated code runs. *)
(* The statements are rendered by lvl3's statement module; their meaning   *)
(* here follows sections 4.3 and 4.4 of the design document.               *)

\* size in bytes of a level-2 scalar type
SizeOfLvl2(ty) == IF ty = "u8" THEN 1 ELSE 2

\* size in bytes of a level-3 type
SizeOfType(t) == SizeOfLvl2(t.name)

RECURSIVE Pow256(_)
Pow256(n) == IF n = 0 THEN 1 ELSE 256 * Pow256(n - 1)

\* the n bytes of v, least significant first; v is cut to n bytes
Encode(v, n) == [j \in 1..n |-> (v \div Pow256(j - 1)) % 256]

RECURSIVE Decode(_)
Decode(bs) == IF bs = <<>> THEN 0 ELSE Head(bs) + 256 * Decode(Tail(bs))

Zeros(n) == [j \in 1..n |-> 0]

\* the declared type of the member called name
FieldTy(fields, name) ==
    LET k == CHOOSE k \in 1..Len(fields) :
                 fields[k].kind \in {"Field", "List"} /\ fields[k].name = name
    IN  fields[k].ty

\* the type of the length slot of the list called name
SlotTy(fields, name) ==
    LET k == CHOOSE k \in 1..Len(fields) :
                 fields[k].kind = "LenSlot" /\ fields[k].owning_list = name
    IN  fields[k].ty

RECURSIVE EncodeAll(_, _)
EncodeAll(elems, n) ==
    IF elems = <<>> THEN <<>>
    ELSE Encode(Head(elems), n) \o EncodeAll(Tail(elems), n)

\* one as_bytes statement; log records, per statement, where it wrote and
\* how many list elements it wrote
AsBytesStep(st, s, fields, self) ==
    LET put(bs, count) ==
            [st EXCEPT !.bytes = @ \o bs,
                       !.index = @ + Len(bs),
                       !.log = Append(@, [op |-> s.op, off |-> st.index,
                                          n |-> Len(bs), count |-> count])]
    IN  CASE s.op = "CreateIndexVariable" -> [put(<<>>, 0) EXCEPT !.index = 0]
          [] s.op = "AppendToIndexStatement" ->
                put(Encode(self[s.name], SizeOfLvl2(FieldTy(fields, s.name))), 0)
          [] s.op = "PadIndexStatement" -> put(Zeros(s.bytes), 0)
          [] s.op = "AppendLengthToIndex" ->
                put(Encode(Len(self[s.name]), SizeOfLvl2(SlotTy(fields, s.name))), 0)
          [] s.op = "AsBytesList" ->
                put(EncodeAll(self[s.name], SizeOfLvl2(s.ty)) \o Zeros(s.pad),
                    Len(self[s.name]))
          [] s.op = "ReturnIndexStatement" -> [put(<<>>, 0) EXCEPT !.ret = <<st.index>>]

RECURSIVE RunAsBytes(_, _, _, _)
RunAsBytes(st, stmts, fields, self) ==
    IF stmts = <<>> THEN st
    ELSE RunAsBytes(AsBytesStep(st, Head(stmts), fields, self), Tail(stmts),
                    fields, self)

\* AsByteSequence::as_bytes of the generated structure
ExecAsBytes(stmts, fields, self) ==
    RunAsBytes([bytes |-> <<>>, index |-> 0, log |-> <<>>, ret |-> <<>>],
               stmts, fields, self)

\* the value of a length expression in the environment env
EvalLen(len, env) == IF len.expr = "path" THEN env[len.path] ELSE len.lit

\* one from_bytes statement; a read past the end of the input fails the
\* whole call (ok = FALSE)
FromBytesStep(st, s, bytes) ==
    CASE s.op = "CreateIndexVariable" -> [st EXCEPT !.index = 0]
      [] s.op = "LoadStatementVariable" ->
            LET sz == SizeOfType(s.ty)
            IN  IF st.index + sz > Len(bytes) THEN [st EXCEPT !.ok = FALSE]
                ELSE [st EXCEPT !.sz = sz,
                                !.env = MapInsert(@, s.name,
                                    Decode(SubSeq(bytes, st.index + 1, st.index + sz)))]
      [] s.op = "IncrementIndex::Sz" -> [st EXCEPT !.index = @ + st.sz]
      [] s.op = "IncrementIndex::Number" -> [st EXCEPT !.index = @ + s.bytes]
      [] s.op = "FromBytesList" ->
            LET count == EvalLen(s.len, st.env)
                sz == SizeOfLvl2(s.ty)
                total == count * sz + s.pad
            IN  IF st.index + total > Len(bytes) THEN [st EXCEPT !.ok = FALSE]
                ELSE [st EXCEPT !.index = @ + total,
                                !.env = MapInsert(@, s.name,
                                    [j \in 1..count |->
                                        Decode(SubSeq(bytes, st.index + (j - 1) * sz + 1,
                                                      st.index + j * sz))])]
      [] s.op = "ReturnStruct" ->
            [st EXCEPT !.ret = <<[value |-> [n \in {s.fields[k] : k \in 1..Len(s.fields)}
                                                |-> st.env[n]],
                                  index |-> st.index]>>]

RECURSIVE RunFromBytes(_, _, _)
RunFromBytes(st, stmts, bytes) ==
    IF stmts = <<>> \/ ~st.ok THEN st
    ELSE RunFromBytes(FromBytesStep(st, Head(stmts), bytes), Tail(stmts), bytes)

\* AsByteSequence::from_bytes of the generated structure
ExecFromBytes(stmts, bytes) ==
    RunFromBytes([index |-> 0, sz |-> 0, env |-> EmptyMap, ok |-> TRUE, ret |-> <<>>],
                 stmts, bytes)

\* the value of one size part for the instance self
SizePartValue(p, fields, self) ==
    CASE p.part = "SizeofField" -> SizeOfLvl2(FieldTy(fields, p.name))
      [] p.part = "Bytes" -> p.bytes
      [] p.part = "ListTimesSize" -> Len(self[p.name]) * SizeOfLvl2(p.ty) + p.padding
      [] p.part = "SizeofType" -> SizeOfType(p.ty)

RECURSIVE SumOfSizes(_, _, _)
SumOfSizes(parts, fields, self) ==
    IF parts = <<>> THEN 0
    ELSE SizePartValue(Head(parts), fields, self) + SumOfSizes(Tail(parts), fields, self)

\* whether the emitted unit is a program: member names are distinct and
\* every list whose length is written is a member
Compiles(unit) ==
    /\ \A j, k \in 1..Len(unit.named) : unit.named[j] = unit.named[k] => j = k
    /\ \A k \in 1..Len(unit.asb.as_bytes_stmts) :
          unit.asb.as_bytes_stmts[k].op = "AppendLengthToIndex"
            => \E j \in 1..Len(unit.named) :
                  unit.named[j] = unit.asb.as_bytes_stmts[k].name

---------------------------------------------------------------------------
(* The inputs.                                                             *)

\* the items a message of Spec is made of
ItemUniverse ==
    {Field("a", "u16"), Field("len0", "u8"), Padding(3),
     LenSlot("u16", "xs"), LenSlot("u8", "ys"),
     List("xs", "u16", SingleItem, 2), List("xs", "u16", LengthExpr(1), 2),
     List("ys", "u8", SingleItem, 0), List("ys", "u8", LengthExpr(1), 0)}

\* the items a message of SpecGen is made of
GenItems ==
    {Field("a", "u16"), Padding(3), LenSlot("u16", "xs"),
     List("xs", "u16", SingleItem, 2)}

SeqsUpTo(S, n) == UNION {[1..k -> S] : k \in 0..n}

Names == {"Foo", "Bar"}

Opcodes == {1, 5}

\* a reply of a reply: never looked at by from_lvl2
LeafStructs == {Lvl2Struct("Baz", <<>>, Regular)}

\* reply messages, with every kind tag
ReplyStructs ==
    {Lvl2Struct(n, fs, sp) :
        n \in Names, fs \in SeqsUpTo(GenItems, 1),
        sp \in {Regular, Event(1), Error(1), Request(1, <<>>)}
               \cup {Request(1, <<l>>) : l \in LeafStructs}}

GenStructs ==
    {Lvl2Struct(n, fs, sp) :
        n \in Names, fs \in SeqsUpTo(GenItems, MaxGenItems),
        sp \in {Regular}
               \cup {Event(o) : o \in Opcodes} \cup {Error(o) : o \in Opcodes}
               \cup {Request(o, <<>>) : o \in Opcodes}
               \cup {Request(o, <<r>>) : o \in Opcodes, r \in ReplyStructs}}

AsbStructs ==
    {Lvl2Struct("Foo", fs, Regular) : fs \in SeqsUpTo(ItemUniverse, MaxItems)}

\* the values a scalar member takes
FieldValues(ty) == IF ty = "u8" THEN {1, 255} ELSE {2, 300}

\* the values a list element takes
ElemValues(ty) == IF ty = "u8" THEN {7} ELSE {9, 300}

---------------------------------------------------------------------------
(* The pipeline.                                                           *)

NoRun == [bytes |-> <<>>, index |-> 0, log |-> <<>>, ret |-> <<>>]

NoRead == [index |-> 0, sz |-> 0, env |-> EmptyMap, ok |-> TRUE, ret |-> <<>>]

InitWith(S) ==
    /\ msg \in S
    /\ pc = "start"
    /\ structs = <<>>
    /\ panic_msg = ""
    /\ locals = <<>>
    /\ decl = <<>>
    /\ inst = EmptyMap
    /\ out = NoRun
    /\ back = NoRead

Init == InitWith(AsbStructs)

InitGen == InitWith(GenStructs)

\* (RStruct, Option<RStruct>)::from(msg)
FromLvl2 ==
    /\ pc = "start"
    /\ LET r == from(msg) IN structs' = <<r[1]>> \o r[2]
    /\ pc' = "classified"
    /\ UNCHANGED <<msg, panic_msg, locals, decl, inst, out, back>>

\* the first structure of ss whose populate_from_bytes panics, 0 if none
FirstPanic(ss) ==
    LET bad == {k \in 1..Len(ss) : populate_from_bytes(ss[k]).panic # ""}
    IN  IF bad = {} THEN 0 ELSE CHOOSE k \in bad : \A j \in bad : k <= j

\* populate_asb on each structure in turn; a panic ends the generation
PopulateAsb ==
    /\ pc = "classified"
    /\ LET p == FirstPanic(structs)
       IN  /\ structs' = [k \in 1..Len(structs) |->
                            IF p = 0 \/ k <= p THEN populate_asb(structs[k])
                            ELSE structs[k]]
           /\ panic_msg' = IF p = 0 THEN "" ELSE populate_from_bytes(structs[p]).panic
           /\ locals' = [k \in 1..(IF p = 0 THEN Len(structs) ELSE p) |->
                           populate_from_bytes(structs[k])]
           /\ pc' = IF p = 0 THEN "populated" ELSE "panicked"
    /\ UNCHANGED <<msg, decl, inst, out, back>>

\* to_syn_item on each structure
ToSynItem ==
    /\ pc = "populated"
    /\ decl' = [k \in 1..Len(structs) |-> to_syn_item(structs[k])]
    /\ pc' = "emitted"
    /\ UNCHANGED <<msg, structs, panic_msg, locals, inst, out, back>>

FieldItems(fields) == {k \in 1..Len(fields) : fields[k].kind = "Field"}

ListItems(fields) == {k \in 1..Len(fields) : fields[k].kind = "List"}

\* a fresh instance of the first structure: scalars set, lists empty
New ==
    /\ pc = "emitted"
    /\ Compiles(decl[1])
    /\ LET fields == structs[1].fields
           fnames == {fields[k].name : k \in FieldItems(fields)}
           lnames == {fields[k].name : k \in ListItems(fields)}
       IN  \E fv \in [fnames -> FieldValues("u8") \cup FieldValues("u16")] :
              /\ \A n \in fnames : fv[n] \in FieldValues(FieldTy(fields, n))
              /\ inst' = [n \in fnames \cup lnames |->
                            IF n \in fnames THEN fv[n] ELSE <<>>]
    /\ pc' = "live"
    /\ UNCHANGED <<msg, structs, panic_msg, locals, decl, out, back>>

\* Vec::push on a list member
Push ==
    /\ pc = "live"
    /\ \E k \in ListItems(structs[1].fields) :
          LET f == structs[1].fields[k]
          IN  /\ Len(inst[f.name]) < MaxListLen
              /\ \E e \in ElemValues(f.ty) :
                    inst' = [inst EXCEPT ![f.name] = Append(@, e)]
    /\ UNCHANGED <<msg, pc, structs, panic_msg, locals, decl, out, back>>

\* Vec::pop on a list member
Pop ==
    /\ pc = "live"
    /\ \E k \in ListItems(structs[1].fields) :
          LET f == structs[1].fields[k]
          IN  /\ Len(inst[f.name]) > 0
              /\ inst' = [inst EXCEPT ![f.name] = SubSeq(@, 1, Len(@) - 1)]
    /\ UNCHANGED <<msg, pc, structs, panic_msg, locals, decl, out, back>>

\* as_bytes on the instance
AsBytes ==
    /\ pc = "live"
    /\ out' = ExecAsBytes(structs[1].asb.as_bytes_stmts, structs[1].fields, inst)
    /\ pc' = "serialized"
    /\ UNCHANGED <<msg, structs, panic_msg, locals, decl, inst, back>>

\* from_bytes on the bytes just written
FromBytes ==
    /\ pc = "serialized"
    /\ back' = ExecFromBytes(structs[1].asb.from_bytes_stmts, out.bytes)
    /\ pc' = "done"
    /\ UNCHANGED <<msg, structs, panic_msg, locals, decl, inst, out>>

Next ==
    \/ FromLvl2
    \/ PopulateAsb
    \/ ToSynItem
    \/ New
    \/ Push
    \/ Pop
    \/ AsBytes
    \/ FromBytes

NextGen ==
    \/ FromLvl2
    \/ PopulateAsb
    \/ ToSynItem

Spec == Init /\ [][Next]_vars

SpecGen == InitGen /\ [][NextGen]_vars

---------------------------------------------------------------------------
(* Classification: the claims about from_lvl2 and the transparency flag,   *)
(* checked under SpecGen.                                                  *)

Classified == pc # "start"

\* C4: a Request with a reply, classified with the reply flag unset, gives
\* two structures: <name>Request with the single trait Request(opcode, T),
\* and a second structure without traits whose final name, the reply's
\* name + "Reply", is T.  A Request without a reply gives one structure
\* whose Request trait carries the empty tuple type.
C4_RequestReplyLinkage ==
    Classified /\ msg.special.tag = "Request" =>
        /\ structs[1].name = msg.name \o "Request"
        /\ Len(structs[1].traits) = 1
        /\ structs[1].traits[1].tag = "Request"
        /\ structs[1].traits[1].opcode = msg.special.opcode
        /\ IF msg.special.reply # <<>>
           THEN /\ Len(structs) = 2
                /\ structs[2].traits = <<>>
                /\ structs[2].name = msg.special.reply[1].name \o "Reply"
                /\ structs[1].traits[1].ty = TypeBasic(structs[2].name)
           ELSE /\ Len(structs) = 1
                /\ structs[1].traits[1].ty = TypeTuple(<<>>)

\* C4's case: a request and its reply, of different names, were classified.
C4_Witness ==
    /\ pc = "classified"
    /\ msg.special.tag = "Request"
    /\ Len(structs) = 2
    /\ msg.special.reply[1].name # msg.name
    /\ structs[1].traits[1].ty.name = structs[2].name

\* C5 as stated: the transparency flag is set iff exactly one member is
\* left in the emitted field list once Padding and LenSlot are elided.
C5_TransparentIffOneEmittedField ==
    pc = "emitted" =>
        \A k \in 1..Len(structs) :
            structs[k].is_transparent <=> Len(decl[k].named) = 1

\* the message each returned structure was built from
SourceOf(k) == IF k = 1 THEN msg ELSE msg.special.reply[1]

\* C5 as amended: the transparency flag is set iff the message has exactly
\* one StructureItem, Padding and LenSlot counted; the emitted declaration
\* is marked transparent iff the flag is set, and a transparent structure
\* has at most one emitted member.
C5_TransparentIffOneItem ==
    /\ Classified =>
           \A k \in 1..Len(structs) :
               structs[k].is_transparent <=> Len(SourceOf(k).fields) = 1
    /\ pc = "emitted" =>
           \A k \in 1..Len(structs) :
               /\ structs[k].is_transparent
                    <=> \E a \in 1..Len(decl[k].attrs) :
                            decl[k].attrs[a] = "repr(transparent)"
               /\ structs[k].is_transparent => Len(decl[k].named) <= 1

\* C5's case: a transparent structure whose only item is elided, and so
\* has no emitted member at all.
C5_Witness ==
    /\ pc = "emitted"
    /\ structs[1].is_transparent
    /\ decl[1].named = <<>>
    /\ Len(msg.fields) = 1

\* C10: from_lvl2 returns at most two structures whatever the kind tag of
\* the reply; the structure built with the reply flag set is named
\* <reply name>Reply, has no trait, and yields nothing from its own reply.
C10_RecursionDepthOne ==
    Classified =>
        /\ Len(structs) <= 2
        /\ Len(structs) = 2 <=> (msg.special.tag = "Request" /\ msg.special.reply # <<>>)
        /\ Len(structs) = 2 =>
              LET reply == msg.special.reply[1]
              IN  /\ structs[2].name = reply.name \o "Reply"
                  /\ structs[2].traits = <<>>
                  /\ structs[2].fields = reply.fields
                  /\ from_lvl2(reply, TRUE)[2] = <<>>
                  /\ [from_lvl2(reply, TRUE)[1] EXCEPT !.asb = structs[2].asb] = structs[2]

\* C10's case: the reply of the classified request is itself tagged as a
\* request with a reply.
C10_Witness ==
    /\ pc = "classified"
    /\ Len(structs) = 2
    /\ msg.special.reply[1].special.tag = "Request"
    /\ msg.special.reply[1].special.reply # <<>>
    /\ structs[2].traits = <<>>

---------------------------------------------------------------------------
(* Synthesis and execution: the claims about populate_asb, checked under   *)
(* Spec.  They speak of the first structure, the only one of a Regular     *)
(* message.                                                                *)

\* populate_asb returned for every structure
Completed == pc \in {"populated", "emitted", "live", "serialized", "done"}

\* the generated code ran
Serialized == pc \in {"serialized", "done"}

SingleLists(fields) ==
    {k \in ListItems(fields) : fields[k].list_length.form = "single"}

ExprLists(fields) ==
    {k \in ListItems(fields) : fields[k].list_length.form = "expr"}

LenSlots(fields) == {k \in 1..Len(fields) : fields[k].kind = "LenSlot"}

\* the length slots naming the list called name
SlotsFor(fields, name) == {j \in LenSlots(fields) : fields[j].owning_list = name}

\* the names of the members, in item order
MemberNames(fields) ==
    LET kept == SelectSeq(fields, LAMBDA f : f.kind = "Field" \/ f.kind = "List")
    IN  [k \in 1..Len(kept) |-> kept[k].name]

\* an unconsumed length slot naming list k occurs strictly before it
Fed(fields, k) ==
    \E j \in SlotsFor(fields, fields[k].name) :
        /\ j < k
        /\ \A m \in SingleLists(fields) :
              j < m /\ m < k => fields[m].name # fields[k].name

\* the single-slot lists that find no entry in the scratch mapping
Unfed(fields) == {k \in SingleLists(fields) : ~Fed(fields, k)}

\* every list sized by an expression holds as many elements as it says
SizedAsDeclared(fields, self) ==
    \A k \in ExprLists(fields) : Len(self[fields[k].name]) = fields[k].list_length.n

\* from_bytes gave back the instance, and read as far as as_bytes wrote
RoundTrips ==
    /\ back.ok
    /\ back.ret # <<>>
    /\ back.ret[1].value = inst
    /\ out.ret # <<>>
    /\ back.ret[1].index = out.ret[1]

\* C1: for a message in which every single-slot List has a matching
\* LenSlot, as_bytes followed by from_bytes gives back every Field and List
\* value, and the read cursor ends where the write cursor did.  The claim
\* is read in its favour: the slot is taken to precede its list, and a list
\* sized by an expression to hold the number of elements the expression
\* gives.
C1_RoundTrip ==
    LET fields == msg.fields
    IN  pc = "done"
        /\ (\A k \in SingleLists(fields) :
               \E j \in SlotsFor(fields, fields[k].name) : j < k)
        /\ SizedAsDeclared(fields, inst)
        => RoundTrips

\* What holds in C1's place: the round trip succeeds whenever no member is
\* called like a length temporary.
RoundTripUnlessShadowed ==
    LET fields == msg.fields
    IN  pc = "done"
        /\ SizedAsDeclared(fields, inst)
        /\ (\A a \in 1..Len(locals[1].temps), k \in 1..Len(MemberNames(fields)) :
               locals[1].temps[a] # MemberNames(fields)[k])
        => RoundTrips

\* C2: populate_from_bytes aborts exactly when some single-slot List finds
\* no entry for its name (no slot names it, the slot comes later, or the
\* entry was consumed), it aborts at the first such List with a message
\* naming it, and then no from_bytes statements and no unit are produced; a
\* List with an unconsumed earlier slot does not abort.
C2_AbortIffNoSlot ==
    pc \notin {"start", "classified"} =>
        LET fields == msg.fields
            bad == Unfed(fields)
        IN  IF bad = {}
            THEN Completed /\ panic_msg = "" /\ locals[1].panic = ""
            ELSE LET first == CHOOSE k \in bad : \A j \in bad : k <= j
                 IN  /\ pc = "panicked"
                     /\ panic_msg = "Bad len map: Cannot find len for "
                                      \o fields[first].name
                     /\ Len(locals[1].maps) = first - 1
                     /\ structs[1].asb.from_bytes_stmts = <<>>
                     /\ decl = <<>>

\* C2's case: generation aborted at a List whose slot had been consumed by
\* an earlier List of the same name.
C2_Witness ==
    /\ pc = "panicked"
    /\ \E k \in Unfed(msg.fields) :
          \E j \in SlotsFor(msg.fields, msg.fields[k].name) : j < k

\* the value the statement at position k of as_bytes wrote
Written(k) ==
    Decode(SubSeq(out.bytes, out.log[k].off + 1, out.log[k].off + out.log[k].n))

\* the number of elements as_bytes wrote for the list called name
RECURSIVE ElementsWritten(_, _)
ElementsWritten(name, k) ==
    IF k = 0 THEN 0
    ELSE ElementsWritten(name, k - 1)
         + (IF structs[1].asb.as_bytes_stmts[k].op = "AsBytesList"
               /\ structs[1].asb.as_bytes_stmts[k].name = name
            THEN out.log[k].count ELSE 0)

\* C3: the statement emitted for a LenSlot writes the element count the
\* named list has when as_bytes runs, which is the number of elements
\* as_bytes then writes for that list, whatever pushes and pops came after
\* construction.
C3_LengthSlotFidelity ==
    Serialized =>
        \A k \in LenSlots(msg.fields) :
            LET stmts == structs[1].asb.as_bytes_stmts
                name == msg.fields[k].owning_list
            IN  /\ stmts[k + 1] = AppendLengthToIndex(name)
                /\ out.log[k + 1].n = SizeOfLvl2(msg.fields[k].ty)
                /\ Written(k + 1) = Len(inst[name])
                /\ Written(k + 1) = ElementsWritten(name, Len(stmts))

\* C3's case: a list that was empty at construction was pushed to, and
\* then serialized behind its length slot.
C3_Witness ==
    /\ Serialized
    /\ \E k \in LenSlots(msg.fields) :
          /\ Len(inst[msg.fields[k].owning_list]) = MaxListLen
          /\ Written(k + 1) = MaxListLen

C7_TempNamesFresh ==
    Completed =>
        LET temps == locals[1].temps
            names == MemberNames(msg.fields)
        IN  /\ \A a, b \in 1..Len(temps) : temps[a] = temps[b] => a = b
            /\ \A a \in 1..Len(temps), k \in 1..Len(names) : temps[a] # names[k]

\* every single-slot List has exactly one LenSlot naming it, placed earlier
WellFormed(fields) ==
    \A k \in SingleLists(fields) :
        /\ Cardinality(SlotsFor(fields, fields[k].name)) = 1
        /\ \A j \in SlotsFor(fields, fields[k].name) : j < k

\* every LenSlot names a single-slot List placed later
EverySlotUsed(fields) ==
    \A j \in LenSlots(fields) :
        \E k \in SingleLists(fields) : j < k /\ fields[k].name = fields[j].owning_list

\* len_map before item k was processed
MapBefore(k) == IF k = 1 THEN EmptyMap ELSE locals[1].maps[k - 1]

\* a List sized by an expression leaves the scratch mapping as it was
ExprListsKeepMap ==
    \A k \in ExprLists(msg.fields) : locals[1].maps[k] = MapBefore(k)

\* C8 as stated: for a well-formed message the scratch mapping is empty
\* after the last item, and a List sized by an expression neither reads nor
\* removes an entry.
C8_ScratchDrained ==
    Completed /\ WellFormed(msg.fields) =>
        /\ locals[1].len_map = EmptyMap
        /\ ExprListsKeepMap

\* C8 as amended: the same, for the well-formed messages in which every
\* LenSlot names a single-slot List placed later.
C8_ScratchDrainedWhenSlotsUsed ==
    Completed /\ WellFormed(msg.fields) /\ EverySlotUsed(msg.fields) =>
        /\ locals[1].len_map = EmptyMap
        /\ Len(locals[1].maps) = Len(msg.fields)
        /\ ExprListsKeepMap

\* C8's case: a length slot was inserted and consumed, and a List sized by
\* an expression was processed while an entry was in the mapping.
C8_Witness ==
    /\ Completed
    /\ WellFormed(msg.fields) /\ EverySlotUsed(msg.fields)
    /\ LenSlots(msg.fields) # {}
    /\ \E k \in ExprLists(msg.fields) : MapBefore(k) # EmptyMap
    /\ locals[1].len_map = EmptyMap

\* C9: the ReturnStruct statement lists exactly the names of the Field and
\* List items in item order, never a length temporary or a Padding; the
\* list is the field list of the emitted declaration, and every name in it
\* is bound by an earlier statement.
C9_ReturnStructFields ==
    Completed =>
        LET stmts == structs[1].asb.from_bytes_stmts
            rs == stmts[Len(stmts)]
        IN  /\ rs.op = "ReturnStruct"
            /\ rs.fields = MemberNames(msg.fields)
            /\ \A a \in 1..Len(rs.fields), t \in 1..Len(locals[1].temps) :
                  rs.fields[a] # locals[1].temps[t]
            /\ pc # "populated" => rs.fields = decl[1].named
            /\ \A a \in 1..Len(rs.fields) :
                  \E j \in 1..(Len(stmts) - 1) :
                      /\ stmts[j].op \in {"LoadStatementVariable", "FromBytesList"}
                      /\ stmts[j].name = rs.fields[a]

\* What holds in C9's place: everything but the clause on temporaries.
ReturnStructListsMembers ==
    Completed =>
        LET stmts == structs[1].asb.from_bytes_stmts
            rs == stmts[Len(stmts)]
        IN  /\ rs.op = "ReturnStruct"
            /\ rs.fields = MemberNames(msg.fields)
            /\ pc # "populated" => rs.fields = decl[1].named
            /\ \A a \in 1..Len(rs.fields) :
                  \E j \in 1..(Len(stmts) - 1) :
                      /\ stmts[j].op \in {"LoadStatementVariable", "FromBytesList"}
                      /\ stmts[j].name = rs.fields[a]

====
